---- MODULE Spec2Model ----
(***************************************************************************)
(* Model of the SCE importer (src/SCE/importer.py, src/SCE/pandas_helpers.py, *)
(* src/main.py).                                                           *)
(*                                                                         *)
(* A table is a function from column names to Series; a Series is a record *)
(* [dtype, vals] whose vals is a sequence with one entry per row of the    *)
(* (respondent, wave) index.  An entry is NA (the empty tuple, pandas' NaN)*)
(* or <<v>> for the number v.  Survey answers are integer-valued floats.   *)
(***************************************************************************)
EXTENDS Integers, Sequences, FiniteSets, TLC

VARIABLES
    pc,          \* position of the running function
    ids,         \* respondent id of every row of the sorted index
    df,          \* raw table
    df_full,     \* Full Table under construction
    df_extract,  \* Extract Table under construction
    log,         \* records written to the "SCE" logger
    arg,         \* arguments of the helper under examination
    res,         \* its result
    written      \* output files main has written

vars == <<pc, ids, df, df_full, df_extract, log, arg, res, written>>

-----------------------------------------------------------------------------
(* Bounds *)

\* longest column handed to a helper on its own
MaxLen == 3
\* largest absolute value of a magnitude handed to flip_sign on its own
MaxMag == 2
\* largest answer code of a respondent-constant attribute
MaxCode == 2
\* most candidate columns handed to merge_if_na, and their longest length
MaxCols == 3
MaxMergeRows == 2
\* largest number handed to try_cast, and the most rows of a table handed to it
MaxCastVal == 1
MaxFrameRows == 2
\* most rows of the raw table handed to process_sce
MaxRows == 2
\* most waves of a panel whose household composition is followed
MaxWaves == 4

-----------------------------------------------------------------------------
(* Values and Series *)

NA == <<>>
Num(v) == <<v>>
isna(x) == x = NA
notna(x) == x # NA
\* Series.fillna(v) on one entry
fillna(x, v) == IF isna(x) THEN v ELSE x[1]

Series(dtype, vals) == [dtype |-> dtype, vals |-> vals]
Float(vals) == Series("float64", vals)

Rows(s) == 1..Len(s.vals)
Empty == <<>>
NoTable == [c \in {} |-> Empty]

\* the columns of a table in table order
RECURSIVE SetToSeq(_)
SetToSeq(S) ==
    IF S = {} THEN <<>>
    ELSE LET c == CHOOSE x \in S : TRUE IN <<c>> \o SetToSeq(S \ {c})
Columns(frame) == SetToSeq(DOMAIN frame)

\* isinstance(values, pd.DataFrame)
IsDataFrame(values) == "vals" \notin DOMAIN values

\* sorted (respondent, wave) indexes of n rows: respondents numbered from 1
PanelIds(n) ==
    {s \in [1..n -> 1..n] :
        /\ n > 0 => s[1] = 1
        /\ \A i \in 1..(n - 1) : s[i + 1] \in {s[i], s[i] + 1}}

-----------------------------------------------------------------------------
(* src/SCE/pandas_helpers.py *)

\* ---- merge_if_na ----

\* a loop whose mask forgets merged.isna(): the last value present wins
RECURSIVE MergeFrom_Overwrites(_, _, _)
MergeFrom_Overwrites(merged, data, k) ==
    IF k > Len(data) THEN merged
    ELSE MergeFrom_Overwrites([merged EXCEPT !.vals =
                 [i \in 1..Len(merged.vals) |->
                     IF data[k].vals[i] # NA THEN data[k].vals[i] ELSE @[i]]],
             data, k + 1)

\* the loop over data.iloc[:, 1:], from column k on
RECURSIVE MergeFrom(_, _, _)
MergeFrom(merged, data, k) ==
    IF k > Len(data) THEN merged
    ELSE LET var == data[k]
             mask == [i \in Rows(merged) |-> isna(merged.vals[i]) /\ notna(var.vals[i])]
         IN  MergeFrom([merged EXCEPT !.vals =
                           [i \in Rows(merged) |-> IF mask[i] THEN var.vals[i] ELSE @[i]]],
                       data, k + 1)

\* data: the columns of pd.concat(data, axis=1), in order
merge_if_na(data) == MergeFrom(data[1], data, 2)

\* ---- try_cast ----

Return(v, l) == [exc |-> "none", values |-> v, log |-> l]
Raise(e) == [exc |-> e, values |-> NA, log |-> <<>>]

\* the numpy dtype a target names
NpDtype(dtype) == IF dtype = "int" THEN "int64" ELSE dtype

\* one number converted to the target type
CastNum(v, dtype) == IF dtype = "uint8" THEN v % 256 ELSE v

\* Series.astype(dtype) for an integer target: a float column with NaN, or
\* with a negative number for an unsigned target, raises ValueError
astype(s, dtype) ==
    IF s.dtype = "float64" /\ \E i \in Rows(s) : isna(s.vals[i])
    THEN Raise("ValueError")
    ELSE IF s.dtype = "float64" /\ dtype = "uint8" /\ \E i \in Rows(s) : s.vals[i][1] < 0
    THEN Raise("ValueError")
    ELSE Return(Series(NpDtype(dtype), [i \in Rows(s) |-> Num(CastNum(s.vals[i][1], dtype))]),
                <<>>)

\* values.isna().sum()
CountNA(s) == Cardinality({i \in Rows(s) : isna(s.vals[i])})

\* the body of the loop over values.columns, from column k of names on
RECURSIVE CastColumnsFrom(_, _, _, _, _)
CastColumnsFrom(values, names, k, dtype, logged) ==
    IF k > Len(names) THEN Return(values, logged)
    ELSE LET name == names[k]
             r == astype(values[name], dtype)
         IN  IF r.exc = "none"
             THEN CastColumnsFrom([values EXCEPT ![name] = r.values], names, k + 1,
                                  dtype, logged)
             ELSE IF r.exc = "ValueError"
             THEN CastColumnsFrom(values, names, k + 1, dtype,
                      Append(logged, <<"warning", "Failed to cast column", name,
                                       dtype, CountNA(values[name])>>))
             ELSE Raise(r.exc)

\* a cast whose try statement encloses the whole loop over the columns
try_cast_StopsAtFirstFailure(values, dtype) ==
    IF IsDataFrame(values)
    THEN IF \E c \in DOMAIN values : astype(values[c], dtype).exc # "none"
         THEN Return(values, <<<<"warning", "Failed to cast column", "?", dtype, 0>>>>)
         ELSE CastColumnsFrom(values, Columns(values), 1, dtype, <<>>)
    ELSE LET r == astype(values, dtype)
         IN  IF r.exc = "none" THEN Return(r.values, <<>>)
             ELSE Return(values, <<<<"warning", "Failed to cast", "", dtype, CountNA(values)>>>>)

\* a Series of the model carries no name: its warning is the unnamed one
try_cast(values, dtype) ==
    IF IsDataFrame(values)
    THEN CastColumnsFrom(values, Columns(values), 1, dtype, <<>>)
    ELSE LET r == astype(values, dtype)
         IN  IF r.exc = "none" THEN Return(r.values, <<>>)
             ELSE IF r.exc = "ValueError"
             THEN Return(values, <<<<"warning", "Failed to cast", "", dtype, CountNA(values)>>>>)
             ELSE Raise(r.exc)

\* ---- tile_const ----

\* the columns of values, a Series being its own single column
ColumnsOf(values) ==
    IF IsDataFrame(values) THEN {values[c] : c \in DOMAIN values} ELSE {values}

\* values.dropna(): the rows kept (for a table, rows without any NaN)
dropna(values, n) == {i \in 1..n : \A s \in ColumnsOf(values) : notna(s.vals[i])}

\* values.groupby(by).size() of group g
GroupSize(kept, by, g) == Cardinality({i \in kept : by[i] = g})

\* a consistency check that counts distinct values instead of rows
Inconsistent_Distinct(values, kept, by) ==
    \E g \in {by[i] : i \in kept} :
        Cardinality({[s \in ColumnsOf(values) |-> s.vals[i]] : i \in {j \in kept : by[j] = g}}) # 1

\* (values.groupby(by).size() != 1).any()
Inconsistent(values, kept, by) ==
    \E g \in {by[i] : i \in kept} : GroupSize(kept, by, g) # 1

\* a fill that runs down the column across respondents
TileColumn_Ffill(s, kept, by) ==
    LET last(i) == IF \E j \in kept : j <= i
                   THEN s.vals[CHOOSE j \in kept : j <= i /\ \A k \in kept : k <= i => k <= j]
                   ELSE NA
        tiled == [i \in Rows(s) |-> last(i)]
    IN  Series(IF \E i \in Rows(s) : isna(tiled[i]) THEN "float64" ELSE s.dtype, tiled)

\* values.groupby(by).first().reindex(index, level=by) for one column
TileColumn(s, kept, by) ==
    LET first(g) == s.vals[CHOOSE i \in kept : by[i] = g /\ \A j \in kept : by[j] = g => i <= j]
        tiled == [i \in Rows(s) |-> IF \E j \in kept : by[j] = by[i] THEN first(by[i]) ELSE NA]
    IN  Series(IF \E i \in Rows(s) : isna(tiled[i]) THEN "float64" ELSE s.dtype, tiled)

\* by: the respondent id of every row of values.index; dtype "None" for no cast
tile_const(values, by, dtype) ==
    LET kept == dropna(values, Len(by))
    IN  IF Inconsistent(values, kept, by)
        THEN Raise("ValueError")
        ELSE LET tiled == IF IsDataFrame(values)
                          THEN [c \in DOMAIN values |-> TileColumn(values[c], kept, by)]
                          ELSE TileColumn(values, kept, by)
             IN  IF dtype # "None" THEN try_cast(tiled, dtype) ELSE Return(tiled, <<>>)

-----------------------------------------------------------------------------
(* src/SCE/importer.py: flip_sign *)

\* a flip that ignores the mask
NegateAllRows(s, negative) ==
    [s EXCEPT !.vals = [i \in 1..Len(s.vals) |->
        IF s.vals[i] # NA THEN Num(-1 * s.vals[i][1]) ELSE s.vals[i]]]

\* df.loc[negative, varname] *= -1 ; NaN * -1 is NaN
Negate(s, negative) ==
    [s EXCEPT !.vals = [i \in Rows(s) |->
        IF negative[i] /\ notna(s.vals[i]) THEN Num(-1 * s.vals[i][1]) ELSE s.vals[i]]]

\* a normalizer that also flips a group of mixed signs
flip_sign_FlipsAmbiguous(frame, varname, negative) ==
    LET s == frame[varname]
        sel == {i \in Rows(s) : negative[i]}
    IN  IF \A i \in sel : fillna(s.vals[i], 0) <= 0
        THEN [df |-> frame, log |-> <<"info", "Leaving sign unchanged", varname>>]
        ELSE [df |-> [frame EXCEPT ![varname] = Negate(s, negative)],
              log |-> <<"info", "Flipping sign to negative", varname>>]

\* The mutated table and the record logged.
flip_sign(frame, varname, negative) ==
    LET s == frame[varname]
        sel == {i \in Rows(s) : negative[i]}
    IN  IF \A i \in sel : fillna(s.vals[i], 0) <= 0
        THEN [df |-> frame, log |-> <<"info", "Leaving sign unchanged", varname>>]
        ELSE IF \A i \in sel : fillna(s.vals[i], 0) >= 0
        THEN [df |-> [frame EXCEPT ![varname] = Negate(s, negative)],
              log |-> <<"info", "Flipping sign to negative", varname>>]
        ELSE [df |-> frame, log |-> <<"warning", "ambiguous sign", varname>>]

-----------------------------------------------------------------------------
(* flip_sign on its own: a one-column table "x" and a mask, applied twice *)

Mags == {NA} \cup {Num(v) : v \in (0 - MaxMag)..MaxMag}

InitFlip ==
    /\ pc = "flip_sign"
    /\ \E n \in 1..MaxLen :
         /\ \E v \in [1..n -> Mags] : df_full = ("x" :> Float(v))
         /\ \E m \in [1..n -> BOOLEAN] : arg = [negative |-> m]
    /\ ids = Empty
    /\ df = NoTable
    /\ df_extract = NoTable
    /\ log = Empty
    /\ res = Empty
    /\ written = {}

\* first call: res keeps the column as it was before the call
FlipOnce ==
    /\ pc = "flip_sign"
    /\ LET r == flip_sign(df_full, "x", arg.negative)
       IN  /\ df_full' = r.df
           /\ log' = Append(log, r.log)
    /\ res' = <<df_full["x"]>>
    /\ pc' = "flipped"
    /\ UNCHANGED <<ids, df, df_extract, arg, written>>

\* second call with the same mask on the result of the first
FlipAgain ==
    /\ pc = "flipped"
    /\ LET r == flip_sign(df_full, "x", arg.negative)
       IN  /\ df_full' = r.df
           /\ log' = Append(log, r.log)
    /\ res' = Append(res, df_full["x"])
    /\ pc' = "flipped_twice"
    /\ UNCHANGED <<ids, df, df_extract, arg, written>>

NextFlip == FlipOnce \/ FlipAgain

SpecFlip == InitFlip /\ [][NextFlip]_vars

\* rows selected by the mask in the call under examination
Selected == {i \in 1..Len(arg.negative) : arg.negative[i]}
\* the column before the first call, after it, and after the second
Before == res[1].vals
AfterFirst == IF pc = "flipped" THEN df_full["x"].vals ELSE res[2].vals

\* C1: after flip_sign, if every selected magnitude (missing read as 0) is
\* <= 0 the column is unchanged; otherwise, if every selected magnitude is
\* >= 0, exactly the selected rows are multiplied by -1 and every other row
\* is as it was.
C1_FlipWholeBatch ==
    pc = "flipped" =>
        IF \A i \in Selected : isna(Before[i]) \/ Before[i][1] <= 0
        THEN AfterFirst = Before
        ELSE (\A i \in Selected : isna(Before[i]) \/ Before[i][1] >= 0) =>
                /\ Len(AfterFirst) = Len(Before)
                /\ \A i \in 1..Len(Before) :
                     IF i \in Selected /\ notna(Before[i])
                     THEN AfterFirst[i] = Num(0 - Before[i][1])
                     ELSE AfterFirst[i] = Before[i]

\* a decrease-flagged group like {+2, +1} came out as {-2, -1} while a row
\* outside the group kept its positive value
C1_Witness ==
    /\ pc = "flipped"
    /\ Cardinality(Selected) >= 2
    /\ \A i \in Selected : notna(Before[i]) /\ Before[i][1] > 0
                            /\ AfterFirst[i] = Num(0 - Before[i][1])
    /\ \E i \in 1..Len(Before) : i \notin Selected /\ notna(Before[i])
                            /\ Before[i][1] > 0 /\ AfterFirst[i] = Before[i]

\* C3: a second flip_sign with the same mask on the result of the first
\* leaves the column unchanged.
C3_Idempotent ==
    pc = "flipped_twice" => df_full["x"] = res[2]

\* the first call flipped a positive group, the second call has run
C3_Witness ==
    /\ pc = "flipped_twice"
    /\ res[1] # res[2]
    /\ \E i \in Selected : notna(Before[i]) /\ Before[i][1] > 0

-----------------------------------------------------------------------------
(* src/SCE/importer.py: process_sce, one action per section of the function. *)
(* Columns that are only copied from the raw table and enter no derivation   *)
(* are left out of the tables.                                                *)

\* df[name] = series
SetCol(frame, name, series) ==
    [c \in DOMAIN frame \cup {name} |-> IF c = name THEN series ELSE frame[c]]

\* a comparison that is false on NaN
ne_FalseOnNA(x, v) == notna(x) /\ x[1] # v

\* Series == v and Series != v on one entry: NaN == v is False, NaN != v is True
eq(x, v) == notna(x) /\ x[1] = v
ne(x, v) == isna(x) \/ x[1] # v

\* Series.map(table, na_action="ignore"): a code missing from the table gives NaN
MapCodes(s, table) ==
    LET out == [i \in Rows(s) |->
                   IF notna(s.vals[i]) /\ s.vals[i][1] \in DOMAIN table
                   THEN Num(table[s.vals[i][1]]) ELSE NA]
    IN  Series(IF \E i \in Rows(s) : isna(out[i]) THEN "float64" ELSE "int64", out)

\* np.where(s.notna(), s.isin(codes), np.nan)
WhereIsIn(s, codes) ==
    Float([i \in Rows(s) |->
              IF isna(s.vals[i]) THEN NA
              ELSE IF s.vals[i][1] \in codes THEN Num(1) ELSE Num(0)])

\* a correctness flag that reads a missing response as a wrong one
WhereEquals_FalseOnNA(s, answer) ==
    Float([i \in 1..Len(s.vals) |->
              IF s.vals[i] # NA /\ s.vals[i][1] = answer THEN Num(1) ELSE Num(0)])

\* np.where(s.notna(), s == answer, np.nan)
WhereEquals(s, answer) ==
    Float([i \in Rows(s) |->
              IF isna(s.vals[i]) THEN NA
              ELSE IF s.vals[i][1] = answer THEN Num(1) ELSE Num(0)])

Abs(x) == IF x < 0 THEN 0 - x ELSE x

\* np.where(s.notna(), (s - 200 * 1.1**2).abs() < 1.0e-6, np.nan): on the
\* whole numbers of the model |x - 242.00000000000003| < 1e-6 is |x - 242| < 1
WhereNear(s, answer) ==
    Float([i \in Rows(s) |->
              IF isna(s.vals[i]) THEN NA
              ELSE IF Abs(s.vals[i][1] - answer) < 1 THEN Num(1) ELSE Num(0)])

\* the tables and the log while a section runs
Tables == [full |-> df_full, extract |-> df_extract, log |-> log, exc |-> "none"]

\* df_full[varname] = df[varname]; negative = df[direction] == code;
\* flip_sign(df_full, varname, negative)
CopyAndFlip(t, direction, code, varname) ==
    LET negative == [i \in Rows(df[direction]) |-> eq(df[direction].vals[i], code)]
        r == flip_sign(SetCol(t.full, varname, df[varname]), varname, negative)
    IN  [t EXCEPT !.full = r.df, !.log = Append(t.log, r.log)]

\* df_extract[name] = series
Expose(t, name, series) == [t EXCEPT !.extract = SetCol(t.extract, name, series)]

\* df_full[name] = series
Keep(t, name, series) == [t EXCEPT !.full = SetCol(t.full, name, series)]

\* a direction/magnitude pair exposed from the Full Table
Pair(t, direction, code, varname, name) ==
    LET u == CopyAndFlip(t, direction, code, varname)
    IN  Expose(u, name, u.full[varname])

\* the section's tables become the state; an exception ends the run
Finish(t, next) ==
    /\ df_full' = t.full
    /\ df_extract' = t.extract
    /\ log' = t.log
    /\ pc' = IF t.exc = "none" THEN next ELSE t.exc
    /\ UNCHANGED <<ids, df, arg, res, written>>

\* the inflation forecast bins of months 48-60 that lines 126-128 ask for
Q9new2 == {"Q9new2_bin1"}

\* lines 128-129: columns is the table df.filter(items=...), not a list of
\* names.  With no bin column in df the assignment changes nothing; with one,
\* df[columns] is df.where(columns), which raises ValueError for a condition
\* that holds numbers, and df_full[columns] = ... raises TypeError for a key
\* that is not boolean
CopyFiltered(t, items) ==
    LET columns == items \cap DOMAIN df
    IN  IF columns = {} THEN t
        ELSE IF \E c \in columns : \E i \in Rows(df[c]) : notna(df[c].vals[i])
        THEN [t EXCEPT !.exc = "ValueError"]
        ELSE [t EXCEPT !.exc = "TypeError"]

\* lines 114-129: only the presence of Q1a is tested
LongRunInflation(t) ==
    IF "Q1a" \notin DOMAIN df THEN t
    ELSE IF "Q1apart2" \notin DOMAIN df THEN [t EXCEPT !.exc = "KeyError"]
    ELSE CopyFiltered(Pair(t, "Q1a", 2, "Q1apart2", "infl_5y"), Q9new2)

\* lines 39-129
Inflation ==
    /\ pc = "Inflation"
    /\ \E m \in {Expose(Keep(Tables, "date", df["date"]), "date", df["date"])} :
       \E a \in {Pair(m, "Q8v2", 2, "Q8v2part2", "infl_1y")} :
       \E b \in {Pair(a, "Q9bv2", 2, "Q9bv2part2", "infl_3y")} :
       \E c \in {LongRunInflation(b)} :
       Finish(c, "Employment")

\* lines 131-197; an assertion that fails raises AssertionError
Employment ==
    /\ pc = "Employment"
    /\ \E s \in {Keep(Tables, "Q12new", df["Q12new"])} :
       \E se \in {Expose(s, "self_employed",
                  MapCodes(s.full["Q12new"], (1 :> 0) @@ (2 :> 1)))} :
       \E a \in {Keep(se, "Q15", df["Q15"])} :
       \E b \in {Expose(a, "looking_for_job",
                 Series("int64", [i \in Rows(df["Q15"]) |->
                 IF eq(a.full["Q15"].vals[i], 1) THEN Num(1) ELSE Num(0)]))} :
       \E c \in {Keep(b, "Q16", df["Q16"])} :
       \E ok16 \in {\A i \in Rows(c.full["Q15"]) :
                    ne(c.full["Q15"].vals[i], 1) => isna(c.full["Q16"].vals[i])} :
       \E d \in {Keep(c, "Q19", df["Q19"])} :
       \E ok19 \in {\A i \in Rows(d.full["Q15"]) :
                    ne(d.full["Q15"].vals[i], 2) => isna(d.full["Q19"].vals[i])} :
       \E e \in {Expose(d, "jobless_length", merge_if_na(<<d.full["Q16"], d.full["Q19"]>>))} :
       IF ~ok16 THEN Finish([c EXCEPT !.exc = "AssertionError"], "Earnings")
       ELSE IF ~ok19 THEN Finish([d EXCEPT !.exc = "AssertionError"], "Earnings")
       ELSE Finish(e, "Earnings")

\* lines 199-224
Earnings ==
    /\ pc = "Earnings"
    /\ \E a \in {Keep(Tables, "Q23v2", df["Q23v2"])} :
       \E b \in {Pair(a, "Q23v2", 3, "Q23v2part2", "earnings_change")} :
       \E c \in {Keep(b, "Q25v2", df["Q25v2"])} :
       \E d \in {Pair(c, "Q25v2", 3, "Q25v2part2", "hh_inc_change")} :
       Finish(d, "Spending")

\* lines 226-236
Spending ==
    /\ pc = "Spending"
    /\ \E a \in {Keep(Tables, "Q26v2", df["Q26v2"])} :
       \E b \in {Pair(a, "Q26v2", 3, "Q26v2part2", "hh_spending_change")} :
       Finish(b, "Taxes")

\* lines 238-262
Taxes ==
    /\ pc = "Taxes"
    /\ \E a \in {Keep(Tables, "Q27v2", df["Q27v2"])} :
       \E b \in {Pair(a, "Q27v2", 3, "Q27v2part2", "taxes_change")} :
       Finish(b, "HousePrices")

\* lines 264-289; house_price_change is read from df, not from df_full
HousePrices ==
    /\ pc = "HousePrices"
    /\ \E a \in {Keep(Tables, "Q31v2", df["Q31v2"])} :
       \E b \in {CopyAndFlip(a, "Q31v2", 3, "Q31v2part2")} :
       \E c \in {Expose(b, "house_price_change", df["Q31v2part2"])} :
       \E d \in {Keep(c, "C2", df["C2"])} :
       \E e \in {Pair(d, "C2", 3, "C2part2", "house_price_change_3y")} :
       Finish(e, "GovernmentDebt")

\* lines 291-305
GovernmentDebt ==
    /\ pc = "GovernmentDebt"
    /\ \E a \in {Keep(Tables, "C3", df["C3"])} :
       \E b \in {Pair(a, "C3", 3, "C3part2", "govt_debt_change")} :
       Finish(b, "NumericalLiteracy")

\* df_full[q] = df[q]; df_extract[name] = df_full[q];
\* df_extract[name + "_correct"] = flag
Literacy(t, q, name, correct, flag) ==
    LET u == Expose(Keep(t, q, df[q]), name, df[q])
    IN  Expose(u, correct, flag)

\* lines 307-371
NumericalLiteracy ==
    /\ pc = "NumericalLiteracy"
    /\ \E a \in {Literacy(Tables, "QNUM1", "num_lit_q1", "num_lit_q1_correct",
                           WhereEquals(df["QNUM1"], 150))} :
       \E b \in {Literacy(a, "QNUM2", "num_lit_q2", "num_lit_q2_correct",
                           WhereNear(df["QNUM2"], 242))} :
       \E c \in {Literacy(b, "QNUM3", "num_lit_q3", "num_lit_q3_correct",
                           WhereEquals(df["QNUM3"], 10))} :
       \E d \in {Literacy(c, "QNUM5", "num_lit_q5", "num_lit_q5_correct",
                           WhereEquals(df["QNUM5"], 100))} :
       \E e \in {Literacy(d, "QNUM6", "num_lit_q6", "num_lit_q6_correct",
                           WhereEquals(df["QNUM6"], 5))} :
       \E f \in {Literacy(e, "QNUM8", "num_lit_q8", "num_lit_q8_correct",
                           WhereEquals(df["QNUM8"], 3))} :
       \E g \in {Literacy(f, "QNUM9", "num_lit_q9", "num_lit_q9_correct",
                           WhereEquals(df["QNUM9"], 2))} :
       Finish(g, "Demographics")

\* df_full[name] = tile_const(df[name], VARNAME_ID, dtype); an exception of an
\* earlier step stands
Broadcast(t, name, dtype) ==
    IF t.exc # "none" THEN t
    ELSE LET r == tile_const(df[name], ids, dtype)
         IN  IF r.exc # "none" THEN [t EXCEPT !.exc = r.exc]
             ELSE [t EXCEPT !.full = SetCol(t.full, name, r.values),
                            !.log = t.log \o r.log]

\* lines 391-395: races is tiled, the raw columns d are what joins df_full
Races(t) ==
    IF t.exc # "none" THEN t
    ELSE LET d == [c \in {"Q35_1", "Q35_2"} |-> df[c]]
             r == tile_const(d, ids, "uint8")
         IN  IF r.exc # "none" THEN [t EXCEPT !.exc = r.exc]
             ELSE [t EXCEPT !.full = [c \in DOMAIN t.full \cup DOMAIN d |->
                                         IF c \in DOMAIN d THEN d[c] ELSE t.full[c]],
                            !.extract = SetCol(t.extract, "black", r.values["Q35_2"]),
                            !.log = t.log \o r.log]

\* a step that follows a step that did not raise
Then(t, u) == IF t.exc # "none" THEN t ELSE u

Range(q) == {q[k] : k \in 1..Len(q)}

\* the household composition columns df.filter(regex="Q45new_.*") and
\* df.filter(regex="D2new_.*") select, in table order; _2 to _5 count the
\* children of the four age groups
Q45new == <<"Q45new_1", "Q45new_2", "Q45new_3", "Q45new_4", "Q45new_5">>
D2new == <<"D2new_1", "D2new_2", "D2new_3", "D2new_4", "D2new_5">>
\* the spouse employment columns the regexes ^HH2_[\d]+$ and ^DHH2_[\d]+$ select
HH2 == {"HH2_1"}
DHH2 == {"DHH2_1"}

\* pd.concat((df_full, d), axis=1) and df_full[columns] = df[columns]
KeepAll(t, names) ==
    [t EXCEPT !.full = [c \in DOMAIN t.full \cup names |->
                           IF c \in names THEN df[c] ELSE t.full[c]]]

\* lines 373-457
Demographics ==
    /\ pc = "Demographics"
    /\ \E a \in {Broadcast(Tables, "Q32", "int")} :
       \E b \in {Then(a, Expose(a, "age_init", a.full["Q32"]))} :
       \E c \in {Broadcast(b, "Q33", "uint8")} :
       \E d \in {Then(c, Expose(c, "female", MapCodes(c.full["Q33"], (1 :> 1) @@ (2 :> 0))))} :
       \E e \in {Broadcast(d, "Q34", "uint8")} :
       \E f \in {Then(e, Expose(e, "hispanic", MapCodes(e.full["Q34"], (1 :> 1) @@ (2 :> 0))))} :
       \E g \in {Races(f)} :
       \E h \in {Broadcast(g, "Q36", "uint8")} :
       \E i \in {Then(h, Expose(h, "college", WhereIsIn(h.full["Q36"], {5, 6, 7, 8})))} :
       \E j \in {Then(i, Expose(i, "educ", MapCodes(i.full["Q36"],
                 (1 :> 1) @@ (2 :> 2) @@ (3 :> 3) @@ (4 :> 3) @@
                 (5 :> 4) @@ (6 :> 4) @@ (7 :> 4) @@ (8 :> 4))))} :
       \E j1 \in {Then(j, KeepAll(j, {"Q38"} \cup (HH2 \cap DOMAIN df)))} :
       \E j2 \in {Then(j1, Keep(j1, "Q43", df["Q43"]))} :
       \E j3 \in {Then(j2, Expose(j2, "owner",
                  MapCodes(j2.full["Q43"], (1 :> 1) @@ (2 :> 0) @@ (3 :> 0))))} :
       \E j4 \in {Then(j3, KeepAll(j3, Range(Q45new)))} :
       \E k \in {Broadcast(j4, "Q46", "uint8")} :
       \E l \in {IF "QRA1" \in DOMAIN df THEN Broadcast(k, "QRA1", "uint8") ELSE k} :
       \E m \in {IF "QRA1" \in DOMAIN df
                 THEN Then(l, Expose(l, "take_fin_risk", l.full["QRA1"])) ELSE l} :
       \E n \in {IF "QRA2" \in DOMAIN df THEN Broadcast(m, "QRA2", "uint8") ELSE m} :
       \E o \in {Then(n, Keep(n, "Q47", df["Q47"]))} :
       Finish(o, "RepeatRespondents")

\* df_full["D1"] == 2
HouseholdChanged(full) == [i \in Rows(full["D1"]) |-> eq(full["D1"].vals[i], 2)]

\* a carry-forward that never takes the composition reported anew
UpdatedComposition_NoUpdate(full, hh_changed) ==
    LET n == Len(hh_changed)
        kept == {i \in 1..n : \A k \in 1..Len(Q45new) : full[Q45new[k]].vals[i] # NA}
        pad(i) == {j \in kept : j <= i}
        last(i) == CHOOSE j \in pad(i) : \A m \in pad(i) : m <= j
    IN  [k \in 1..Len(Q45new) |->
            Float([i \in 1..n |-> IF pad(i) = {} THEN NA ELSE full[Q45new[k]].vals[last(i)]])]

\* lines 468-476, the columns of df_comp in the order of Q45new: the rows
\* where the household changed take the D2new columns by position, rows with
\* a missing entry are dropped, and reindex(method="ffill") gives every row
\* of the index the last kept row at or before it in index order
UpdatedComposition(full, hh_changed) ==
    LET n == Len(hh_changed)
        comp == [i \in 1..n |-> [k \in 1..Len(Q45new) |->
                    IF hh_changed[i] THEN df[D2new[k]].vals[i] ELSE full[Q45new[k]].vals[i]]]
        kept == {i \in 1..n : \A k \in 1..Len(Q45new) : notna(comp[i][k])}
        pad(i) == {j \in kept : j <= i}
        last(i) == CHOOSE j \in pad(i) : \A m \in pad(i) : m <= j
    IN  [k \in 1..Len(Q45new) |->
            Float([i \in 1..n |-> IF pad(i) = {} THEN NA ELSE comp[last(i)][k]])]

\* line 477: df_full[columns] = df_comp
SetComposition(t, comp) ==
    [t EXCEPT !.full = [c \in DOMAIN t.full |->
        IF c \in Range(Q45new)
        THEN comp[CHOOSE k \in 1..Len(Q45new) : Q45new[k] = c]
        ELSE t.full[c]]]

\* the entries of row i under the columns names, NaN skipped, summed
RECURSIVE SumFrom(_, _, _, _)
SumFrom(full, names, i, k) ==
    IF k > Len(names) THEN 0
    ELSE fillna(full[names[k]].vals[i], 0) + SumFrom(full, names, i, k + 1)

\* a sum that reads a missing entry as 0
RowSum_SkipsMissing(full, names, min_count) ==
    Series("int64", [i \in 1..Len(full[names[1]].vals) |-> Num(SumFrom(full, names, i, 1))])

\* lines 482-484: df_full[names].sum(axis=1, min_count=min_count), cast to
\* int when no row is missing
RowSum(full, names, min_count) ==
    LET present(i) == {k \in 1..Len(names) : notna(full[names[k]].vals[i])}
        out == [i \in Rows(full[names[1]]) |->
                   IF Cardinality(present(i)) >= min_count
                   THEN Num(SumFrom(full, names, i, 1)) ELSE NA]
    IN  Series(IF \A i \in DOMAIN out : notna(out[i]) THEN "int64" ELSE "float64", out)

\* line 481
KidCols == <<"Q45new_2", "Q45new_3", "Q45new_4", "Q45new_5">>

\* lines 502-507: every DHH2 column is merged into the column named without
\* its leading D, which df_full holds only if df has it
SpouseEmployment(t) ==
    IF DHH2 \cap DOMAIN df = {} THEN t
    ELSE IF "HH2_1" \notin DOMAIN t.full THEN [t EXCEPT !.exc = "KeyError"]
    ELSE Keep(t, "HH2_1", merge_if_na(<<t.full["HH2_1"], df["DHH2_1"]>>))

\* lines 509-512: the test is on HH_1 in df_full, the columns are read from df
SpouseWorking(t) ==
    IF t.exc # "none" \/ "HH_1" \notin DOMAIN t.full THEN t
    ELSE IF ~({"HH_1", "HH_2"} \subseteq DOMAIN df) THEN [t EXCEPT !.exc = "KeyError"]
    ELSE Expose(t, "spouse_working",
             Series("uint8", [i \in Rows(df["HH_1"]) |->
                 IF eq(df["HH_1"].vals[i], 1) \/ eq(df["HH_2"].vals[i], 1)
                 THEN Num(1) ELSE Num(0)]))

\* lines 459-516
RepeatRespondents ==
    /\ pc = "RepeatRespondents"
    /\ \E a \in {Keep(Tables, "D1", df["D1"])} :
       \E hh_changed \in {HouseholdChanged(a.full)} :
       \E b \in {Expose(a, "hh_changed",
                 Series("uint8", [i \in DOMAIN hh_changed |->
                     IF hh_changed[i] THEN Num(1) ELSE Num(0)]))} :
       \E c \in {SetComposition(b, UpdatedComposition(b.full, hh_changed))} :
       \E d \in {Expose(c, "num_kids", RowSum(c.full, KidCols, 4))} :
       \E e \in {Keep(d, "Q38", merge_if_na(<<d.full["Q38"], df["DQ38"]>>))} :
       \E f \in {Expose(e, "couple", MapCodes(e.full["Q38"], (1 :> 1) @@ (2 :> 0)))} :
       \E g \in {SpouseWorking(SpouseEmployment(f))} :
       \E h \in {Then(g, Keep(g, "Q47", merge_if_na(<<g.full["Q47"], df["D6"]>>)))} :
       \E i \in {Then(h, Expose(h, "hh_inc", h.full["Q47"]))} :
       Finish(i, "Return")

\* lines 518-521: both tables are returned sorted by their index
ReturnTables ==
    /\ pc = "Return"
    /\ pc' = "return"
    /\ UNCHANGED <<ids, df, df_full, df_extract, log, arg, res, written>>

Next ==
    \/ Inflation
    \/ Employment
    \/ Earnings
    \/ Spending
    \/ Taxes
    \/ HousePrices
    \/ GovernmentDebt
    \/ NumericalLiteracy
    \/ Demographics
    \/ RepeatRespondents
    \/ ReturnTables

-----------------------------------------------------------------------------
(* The raw tables process_sce is run on: every question block but one holds  *)
(* no answer.                                                                 *)

\* the direction/magnitude pairs: direction column, decrease code, magnitude
\* column, Extract Table name
SignPairs ==
    { <<"Q8v2", 2, "Q8v2part2", "infl_1y">>,
      <<"Q9bv2", 2, "Q9bv2part2", "infl_3y">>,
      <<"Q1a", 2, "Q1apart2", "infl_5y">>,
      <<"Q23v2", 3, "Q23v2part2", "earnings_change">>,
      <<"Q25v2", 3, "Q25v2part2", "hh_inc_change">>,
      <<"Q26v2", 3, "Q26v2part2", "hh_spending_change">>,
      <<"Q27v2", 3, "Q27v2part2", "taxes_change">>,
      <<"Q31v2", 3, "Q31v2part2", "house_price_change">>,
      <<"C2", 3, "C2part2", "house_price_change_3y">>,
      <<"C3", 3, "C3part2", "govt_debt_change">> }

\* respondent-constant attributes broadcast as a Series
ConstAttrs == {"Q32", "Q33", "Q34", "Q36", "Q46", "QRA1", "QRA2"}
RaceCols == {"Q35_1", "Q35_2"}
\* columns some vintages lack
OptionalCols == {"Q1a", "Q1apart2", "QRA1", "QRA2"} \cup Q9new2 \cup HH2 \cup DHH2

\* the numerical-literacy questions: raw column, Extract Table names,
\* expected answer
LiteracyItems ==
    { <<"QNUM1", "num_lit_q1", "num_lit_q1_correct", 150>>,
      <<"QNUM2", "num_lit_q2", "num_lit_q2_correct", 242>>,
      <<"QNUM3", "num_lit_q3", "num_lit_q3_correct", 10>>,
      <<"QNUM5", "num_lit_q5", "num_lit_q5_correct", 100>>,
      <<"QNUM6", "num_lit_q6", "num_lit_q6_correct", 5>>,
      <<"QNUM8", "num_lit_q8", "num_lit_q8_correct", 3>>,
      <<"QNUM9", "num_lit_q9", "num_lit_q9_correct", 2>> }

\* the columns of a table of all vintages; no vintage at hand has Q9new2 bins
RawCols ==
    {p[1] : p \in SignPairs} \cup {p[3] : p \in SignPairs}
    \cup {"Q12new", "Q15", "Q16", "Q19"} \cup ConstAttrs \cup RaceCols
    \cup {q[1] : q \in LiteracyItems}
    \cup {"Q38", "DQ38", "Q43", "Q47", "D6", "D1"} \cup Range(Q45new) \cup Range(D2new)
    \cup HH2 \cup DHH2 \cup {"date"}

\* an interview date <<year, month, day>>
SomeDate == <<2015, 3, 15>>

\* a raw table of n rows without any answer
Blank(n) ==
    [c \in RawCols |->
        IF c = "date" THEN Series("datetime64", [i \in 1..n |-> Num(SomeDate)])
        ELSE Float([i \in 1..n |-> NA])]

Directions == {NA, Num(2), Num(3)}
PanelMags == {NA, Num(0 - 1), Num(1)}
PanelCodes == {NA, Num(1), Num(2), Num(5), Num(9)}
Months == {NA, Num(4)}

\* a table that answers one direction/magnitude pair, every row a respondent
SignTable(n) ==
    /\ ids = [i \in 1..n |-> i]
    /\ \E p \in SignPairs, d \in [1..n -> Directions], m \in [1..n -> PanelMags] :
         df = [Blank(n) EXCEPT ![p[1]] = Float(d), ![p[3]] = Float(m)]

\* a table that answers the job-search block, with or without a gender in every
\* row; its rows are one respondent's or each another respondent's
EmploymentTable(n) ==
    /\ ids \in {s \in PanelIds(n) : s[n] \in {1, n}}
    /\ \E a \in [1..n -> {NA, Num(1), Num(2)}], b \in [1..n -> Months],
          c \in [1..n -> Months], g \in {NA, Num(1)} :
         df = [Blank(n) EXCEPT !["Q15"] = Float(a), !["Q16"] = Float(b), !["Q19"] = Float(c),
                               !["Q33"] = Float([i \in 1..n |-> g])]

\* a table that answers one respondent-constant attribute, or the race indicators
DemographicTable(n) ==
    /\ ids \in PanelIds(n)
    /\ \/ \E a \in ConstAttrs, v \in [1..n -> PanelCodes] :
            df = [Blank(n) EXCEPT ![a] = Float(v)]
       \/ \E v \in [1..n -> {NA, Num(0), Num(1)}], w \in [1..n -> {NA, Num(0), Num(1)}] :
            df = [Blank(n) EXCEPT !["Q35_1"] = Float(v), !["Q35_2"] = Float(w)]

\* a table that answers one numerical-literacy question: the expected answer,
\* another number, or nothing
LiteracyTable(n) ==
    /\ ids \in PanelIds(n)
    /\ \E q \in LiteracyItems :
         \E v \in [1..n -> {NA, Num(q[4]), Num(q[4] + 1)}] :
            df = [Blank(n) EXCEPT ![q[1]] = Float(v)]

\* a table that answers the self-employment or the home-ownership question,
\* or the marital status of the first and of the repeat interviews
RecodeTable(n) ==
    /\ ids \in PanelIds(n)
    /\ \/ \E v \in [1..n -> {NA, Num(1), Num(2), Num(3)}] :
            df = [Blank(n) EXCEPT !["Q12new"] = Float(v)]
       \/ \E v \in [1..n -> {NA, Num(1), Num(3), Num(4)}] :
            df = [Blank(n) EXCEPT !["Q43"] = Float(v)]
       \/ \E v \in [1..n -> {NA, Num(1), Num(3)}], w \in [1..n -> {NA, Num(2)}] :
            df = [Blank(n) EXCEPT !["Q38"] = Float(v), !["DQ38"] = Float(w)]

\* a table of a vintage that has only some of the optional columns
VintageTable(n) ==
    /\ ids \in PanelIds(n)
    /\ \E present \in SUBSET OptionalCols :
         df = [c \in (RawCols \ OptionalCols) \cup present |->
                  IF c \in RawCols THEN Blank(n)[c] ELSE Float([i \in 1..n |-> NA])]

Init ==
    /\ pc = "Inflation"
    /\ \E n \in 1..MaxRows :
         \/ SignTable(n) \/ EmploymentTable(n) \/ DemographicTable(n)
         \/ LiteracyTable(n) \/ RecodeTable(n) \/ VintageTable(n)
    /\ df_full = NoTable
    /\ df_extract = NoTable
    /\ log = Empty
    /\ arg = Empty
    /\ res = Empty
    /\ written = {}

Spec == Init /\ [][Next]_vars

-----------------------------------------------------------------------------
(* Properties of process_sce *)

\* the rows of pair p flagged as a decrease in the raw table
Flagged(p) == {i \in Rows(df[p[1]]) : eq(df[p[1]].vals[i], p[2])}

\* the flagged rows of pair p hold a positive and a negative raw magnitude
Mixed(p) ==
    /\ p[1] \in DOMAIN df
    /\ \E i, j \in Flagged(p) :
         /\ notna(df[p[3]].vals[i]) /\ df[p[3]].vals[i][1] > 0
         /\ notna(df[p[3]].vals[j]) /\ df[p[3]].vals[j][1] < 0

Logged(level, text, varname) ==
    \E k \in 1..Len(log) : log[k] = <<level, text, varname>>

\* C2: once the section of a pair whose flagged rows mix a positive and a
\* negative magnitude has run, the magnitude column of the Full Table equals
\* the raw column, a warning is logged, and process_sce has not stopped with
\* an exception.
C2_AmbiguousSignLeftAlone ==
    \A p \in SignPairs :
        (p[3] \in DOMAIN df_full /\ Mixed(p)) =>
            /\ df_full[p[3]] = df[p[3]]
            /\ Logged("warning", "ambiguous sign", p[3])
            /\ pc \notin {"AssertionError", "ValueError"}

\* process_sce returned its tables for a raw table with a mixed group
C2_Witness ==
    /\ pc = "return"
    /\ \E p \in SignPairs : Mixed(p) /\ Logged("warning", "ambiguous sign", p[3])

\* C4: the Extract Table variable of every direction/magnitude pair equals,
\* row by row, the sign-normalized magnitude column of the Full Table.
C4_ExtractIsNormalized ==
    \A p \in SignPairs :
        p[4] \in DOMAIN df_extract => df_extract[p[4]].vals = df_full[p[3]].vals

\* a column holds one value in all rows of one respondent
ConstantWithinRespondent(s) ==
    \A i, j \in Rows(s) : ids[i] = ids[j] => s.vals[i] = s.vals[j]

ConstExtract ==
    {"age_init", "female", "hispanic", "black", "college", "educ", "take_fin_risk"}

\* C6: in both returned tables every respondent-constant attribute has the
\* same value in all wave-rows of one respondent.
C6_BroadcastInBothTables ==
    pc = "return" =>
        /\ \A c \in (ConstAttrs \cup RaceCols) \cap DOMAIN df_full :
             ConstantWithinRespondent(df_full[c])
        /\ \A c \in ConstExtract \cap DOMAIN df_extract :
             ConstantWithinRespondent(df_extract[c])

\* a row with months-unemployed outside Q15 = 1, or months-out-of-work
\* outside Q15 = 2 (a missing Q15 is neither)
OutsideCondition(i) ==
    \/ notna(df["Q16"].vals[i]) /\ (isna(df["Q15"].vals[i]) \/ df["Q15"].vals[i][1] # 1)
    \/ notna(df["Q19"].vals[i]) /\ (isna(df["Q15"].vals[i]) \/ df["Q15"].vals[i][1] # 2)

\* C10: process_sce returns only when no row holds Q16 outside Q15 = 1 or Q19
\* outside Q15 = 2; with such a row it never gets past the employment section
\* and ends in an AssertionError, which nothing else raises.
C10_JobSearchAsserted ==
    LET violated == \E i \in 1..Len(ids) : OutsideCondition(i)
    IN  /\ pc = "return" => ~violated
        /\ (violated /\ pc \notin {"Inflation", "Employment"}) => pc = "AssertionError"
        /\ pc = "AssertionError" => violated

\* the run stopped on a row with months-unemployed and no job-search answer
C10_Witness ==
    /\ pc = "AssertionError"
    /\ \E i \in 1..Len(ids) : isna(df["Q15"].vals[i]) /\ notna(df["Q16"].vals[i])

\* C12: for every numerical-literacy question and every row, the correctness
\* flag is missing exactly when the response is missing, and otherwise is 1
\* when the response equals the expected answer and 0 when it does not.
C12_LiteracyFlagMissingIffNoResponse ==
    \A q \in LiteracyItems :
        q[3] \in DOMAIN df_extract =>
            /\ df_extract[q[2]] = df[q[1]]
            /\ \A i \in Rows(df[q[1]]) :
                 /\ isna(df_extract[q[3]].vals[i]) <=> isna(df[q[1]].vals[i])
                 /\ notna(df[q[1]].vals[i]) =>
                      df_extract[q[3]].vals[i] =
                          (IF df[q[1]].vals[i][1] = q[4] THEN Num(1) ELSE Num(0))

\* process_sce returned a missing flag for a missing response next to a 0
\* for a wrong answer
C12_Witness ==
    /\ pc = "return"
    /\ \E q \in LiteracyItems : \E i, j \in Rows(df[q[1]]) :
         /\ isna(df[q[1]].vals[i]) /\ isna(df_extract[q[3]].vals[i])
         /\ notna(df[q[1]].vals[j]) /\ df[q[1]].vals[j][1] # q[4]
         /\ df_extract[q[3]].vals[j] = Num(0)

\* the binary flags built from a raw code: Extract Table name and the Full
\* Table column recoded
BinaryFlags ==
    { <<"self_employed", "Q12new">>, <<"owner", "Q43">>, <<"college", "Q36">>,
      <<"female", "Q33">>, <<"hispanic", "Q34">>, <<"couple", "Q38">> }

\* the recode table of a flag; for college the education codes 1 to 8, of
\* which 5 to 8 are a college degree
RecodeOf(flag) ==
    CASE flag = "self_employed" -> (1 :> 0) @@ (2 :> 1)
      [] flag = "owner" -> (1 :> 1) @@ (2 :> 0) @@ (3 :> 0)
      [] flag = "college" -> [c \in 1..8 |-> IF c >= 5 THEN 1 ELSE 0]
      [] OTHER -> (1 :> 1) @@ (2 :> 0)

\* C13: for every binary flag, a non-missing raw code outside the flag's
\* recode table gives a missing flag, a code of the table gives the table's
\* value, and recoding raises nothing.
C13_UnmappedCodeIsMissing ==
    \A f \in BinaryFlags :
        f[1] \in DOMAIN df_extract =>
            \A i \in Rows(df_full[f[2]]) :
                LET code == df_full[f[2]].vals[i]
                    flag == df_extract[f[1]].vals[i]
                IN  notna(code) =>
                        IF code[1] \in DOMAIN RecodeOf(f[1])
                        THEN flag = Num(RecodeOf(f[1])[code[1]])
                        ELSE isna(flag)

\* the last row at or before row i of the same respondent with a marital
\* status, of the first or of the repeat interview
MaritalReports(i) ==
    {j \in 1..i : ids[j] = ids[i] /\ (notna(df["Q38"].vals[j]) \/ notna(df["DQ38"].vals[j]))}
LastMarital(i) ==
    LET j == CHOOSE j \in MaritalReports(i) : \A k \in MaritalReports(i) : k <= j
    IN  IF notna(df["Q38"].vals[j]) THEN df["Q38"].vals[j] ELSE df["DQ38"].vals[j]

\* C15: in the returned tables, at every wave at or after a respondent's
\* first report of a marital status, Q38 of the Full Table is the last status
\* reported at or before that wave, and couple is its recode.
C15_MaritalStatusCarriedForward ==
    pc = "return" =>
        \A i \in 1..Len(ids) :
            MaritalReports(i) # {} =>
                /\ df_full["Q38"].vals[i] = LastMarital(i)
                /\ LastMarital(i)[1] \in {1, 2} =>
                     df_extract["couple"].vals[i] =
                         Num(RecodeOf("couple")[LastMarital(i)[1]])

\* the columns of the returned tables that stem from an optional raw field
DerivedFrom(field) ==
    CASE field \in {"Q1a", "Q1apart2"} -> {"Q1a", "Q1apart2", "infl_5y"}
      [] field = "QRA1" -> {"QRA1", "take_fin_risk"}
      [] field \in HH2 \cup DHH2 -> {field, "spouse_working"}
      [] OTHER -> {field}

\* C19: for a raw table that lacks an optional field, process_sce never stops
\* with the exception of a reference to an absent column (KeyError), and the
\* tables it returns hold no column that stems from the absent field.
C19_AbsentFieldIsSkipped ==
    \A field \in OptionalCols \ DOMAIN df :
        /\ pc # "KeyError"
        /\ pc = "return" =>
             DerivedFrom(field) \cap (DOMAIN df_full \cup DOMAIN df_extract) = {}

-----------------------------------------------------------------------------
(* process_sce on panels of up to two respondents that report their          *)
(* household composition: at the first interview in Q45new, at a repeat      *)
(* interview in D2new together with the household-changed flag D1.           *)

\* compositions: spouse or partner, then the children of the four age groups
NoComp == <<NA, NA, NA, NA, NA>>
CompA == <<Num(1), Num(1), Num(2), Num(0), Num(0)>>
CompPartial == <<Num(1), Num(1), Num(2), NA, Num(0)>>
\* the composition reported anew at row i
CompNew(i) == <<Num(2), Num(0), Num(0), Num(0), Num(i)>>

\* sorted indexes of n rows of one or two respondents
TwoRespondents(n) == {s \in PanelIds(n) : s[n] <= 2}

\* the answers <<Q45new, D1, D2new>> of row i.  The first row of a respondent
\* is a first interview: D1 and D2new are asked of repeat respondents only.
\* A later row may still answer Q45new when the first interview did not.
FirstAnswers(i) == {<<q, NA, NoComp>> : q \in {NoComp, CompA, CompPartial}}
RepeatAnswers(i) ==
    {<<NoComp, d[1], d[2]>> :
        d \in {<<NA, NoComp>>, <<Num(1), CompNew(i)>>, <<Num(2), CompNew(i)>>,
               <<Num(2), CompPartial>>, <<Num(2), NoComp>>}}
    \cup {<<CompA, NA, NoComp>>}

Position(q, c) == CHOOSE k \in 1..Len(q) : q[k] = c

\* the answers of the first i rows of the index s
RECURSIVE AnswersUpTo(_, _)
AnswersUpTo(s, i) ==
    IF i = 0 THEN {<<>>}
    ELSE {Append(a, x) :
            a \in AnswersUpTo(s, i - 1),
            x \in (IF i = 1 \/ s[i] # s[i - 1]
                   THEN FirstAnswers(i) ELSE RepeatAnswers(i))}

HouseholdTable(n) ==
    /\ ids \in TwoRespondents(n)
    /\ \E a \in AnswersUpTo(ids, n), blank \in {Blank(n)} :
         /\ df = [c \in RawCols |->
                    IF c \in Range(Q45new)
                    THEN Float([i \in 1..n |-> a[i][1][Position(Q45new, c)]])
                    ELSE IF c = "D1" THEN Float([i \in 1..n |-> a[i][2]])
                    ELSE IF c \in Range(D2new)
                    THEN Float([i \in 1..n |-> a[i][3][Position(D2new, c)]])
                    ELSE blank[c]]

InitPanel ==
    /\ pc = "Inflation"
    /\ \E n \in 1..MaxWaves : HouseholdTable(n)
    /\ df_full = NoTable
    /\ df_extract = NoTable
    /\ log = Empty
    /\ arg = Empty
    /\ res = Empty
    /\ written = {}

SpecPanel == InitPanel /\ [][Next]_vars

\* the composition row i reports: the one reported anew where the household
\* changed, the one of the first interview elsewhere
Effective(i) ==
    [k \in 1..Len(Q45new) |->
        IF eq(df["D1"].vals[i], 2) THEN df[D2new[k]].vals[i] ELSE df[Q45new[k]].vals[i]]
Complete(c) == \A k \in DOMAIN c : notna(c[k])
\* the composition of row i in the Full Table
FullComp(i) == [k \in 1..Len(Q45new) |-> df_full[Q45new[k]].vals[i]]
\* the rows of the respondent of row i, up to row i
Earlier(i) == {j \in 1..i : ids[j] = ids[i]}
Latest(S) == CHOOSE j \in S : \A k \in S : k <= j
First(S) == CHOOSE j \in S : \A k \in S : j <= k

\* C11: in the returned tables num_kids of every row is the sum of Q45new_2
\* to Q45new_5 of the Full Table when all four are present in the row, and
\* is missing when one of them is missing.
C11_KidsNeedAllFour ==
    pc = "return" =>
        \A i \in 1..Len(ids) :
            LET kids == [k \in 1..4 |-> df_full[KidCols[k]].vals[i]]
            IN  IF \A k \in 1..4 : notna(kids[k])
                THEN df_extract["num_kids"].vals[i] =
                         Num(kids[1][1] + kids[2][1] + kids[3][1] + kids[4][1])
                ELSE isna(df_extract["num_kids"].vals[i])

\* a respondent who reported the children {1, 2, missing, 0} has no num_kids,
\* the next one who reported {1, 2, 0, 0} has 3
C11_Witness ==
    /\ pc = "return"
    /\ \E i, j \in 1..Len(ids) :
         /\ ids[i] # ids[j]
         /\ Effective(i) = CompPartial /\ isna(df_extract["num_kids"].vals[i])
         /\ Effective(j) = CompA /\ df_extract["num_kids"].vals[j] = Num(3)

\* C14 as stated: for a respondent whose first wave reports a complete
\* Q45new, the composition of the Full Table at every wave is D2new of the
\* latest wave up to it where D1 = 2, and Q45new of the first wave if there
\* is no such wave.
C14_CompositionOfLatestChange ==
    pc = "return" =>
        \A i \in 1..Len(ids) :
            LET f == First(Earlier(i))
                changed == {j \in Earlier(i) : eq(df["D1"].vals[j], 2)}
            IN  Complete([k \in 1..Len(Q45new) |-> df[Q45new[k]].vals[f]]) =>
                    FullComp(i) =
                        (IF changed # {}
                         THEN [k \in 1..Len(D2new) |-> df[D2new[k]].vals[Latest(changed)]]
                         ELSE [k \in 1..Len(Q45new) |-> df[Q45new[k]].vals[f]])

\* C14 amended: at every wave at or after a wave of the respondent that
\* reports a complete composition (D2new where D1 = 2, Q45new elsewhere), the
\* composition of the Full Table is the latest complete one reported up to
\* that wave; a wave with D1 = 2 and an incomplete D2new keeps the last known
\* composition like a wave without D1 = 2.
C14_CompositionOfLatestCompleteReport ==
    pc = "return" =>
        \A i \in 1..Len(ids) :
            LET known == {j \in Earlier(i) : Complete(Effective(j))}
            IN  known # {} => FullComp(i) = Effective(Latest(known))

\* four waves of one respondent with the household changed at the third
\* only: C1, C1, C3, C3
C14_Witness ==
    /\ pc = "return"
    /\ \E i \in 1..Len(ids) :
         /\ i + 3 \in 1..Len(ids) /\ ids[i] = ids[i + 3]
         /\ Effective(i) = CompA
         /\ ne(df["D1"].vals[i], 2) /\ ne(df["D1"].vals[i + 1], 2)
         /\ eq(df["D1"].vals[i + 2], 2) /\ ne(df["D1"].vals[i + 3], 2)
         /\ FullComp(i) = CompA /\ FullComp(i + 1) = CompA
         /\ FullComp(i + 2) = CompNew(i + 2) /\ FullComp(i + 3) = CompNew(i + 2)

\* C20: in the returned tables the composition of every row is one reported
\* complete by the same respondent at that or an earlier wave, and is missing
\* if the respondent has reported none by then.
C20_FillStaysWithinRespondent ==
    pc = "return" =>
        \A i \in 1..Len(ids) :
            LET known == {j \in Earlier(i) : Complete(Effective(j))}
            IN  IF known = {} THEN FullComp(i) = NoComp
                ELSE \E j \in known : FullComp(i) = Effective(j)

-----------------------------------------------------------------------------
(* tile_const on its own: one column over a sorted (respondent, wave) index *)

Codes == {NA} \cup {Num(v) : v \in 1..MaxCode}

InitTile ==
    /\ pc = "tile_const"
    /\ \E n \in 1..MaxLen :
         /\ ids \in PanelIds(n)
         /\ \E v \in [1..n -> Codes], d \in {"None", "int", "uint8"} :
              arg = [values |-> Float(v), dtype |-> d]
    /\ df = NoTable
    /\ df_full = NoTable
    /\ df_extract = NoTable
    /\ log = Empty
    /\ res = Empty
    /\ written = {}

Tile ==
    /\ pc = "tile_const"
    /\ LET r == tile_const(arg.values, ids, arg.dtype)
       IN  /\ pc' = IF r.exc = "none" THEN "tiled" ELSE r.exc
           /\ res' = r.values
           /\ log' = log \o r.log
    /\ UNCHANGED <<ids, df, df_full, df_extract, arg, written>>

NextTile == Tile

SpecTile == InitTile /\ [][NextTile]_vars

\* the rows of respondent g that hold a value in the input of tile_const
Reported(g) == {i \in 1..Len(ids) : ids[i] = g /\ notna(arg.values.vals[i])}

\* C5: when tile_const returns, its result covers the rows of the input, every
\* row of a respondent holds the value of that respondent's only non-missing
\* input row, and every row of a respondent without one is missing.
C5_TileBroadcast ==
    pc = "tiled" =>
        /\ Len(res.vals) = Len(ids)
        /\ \A i \in 1..Len(ids) :
             IF Reported(ids[i]) = {}
             THEN isna(res.vals[i])
             ELSE \A j \in Reported(ids[i]) : res.vals[i] = arg.values.vals[j]

\* a respondent with two waves reported once and both rows got the value,
\* the next respondent reported nothing and stayed missing
C5_Witness ==
    /\ pc = "tiled"
    /\ \E i, j, k \in 1..Len(ids) :
         /\ ids[i] = ids[j] /\ i # j /\ ids[k] # ids[i]
         /\ isna(arg.values.vals[i]) /\ notna(arg.values.vals[j])
         /\ res.vals[i] = arg.values.vals[j]
         /\ Reported(ids[k]) = {} /\ isna(res.vals[k])

-----------------------------------------------------------------------------
(* try_cast on its own: a Series or a two-column table, to int or uint8 *)

CastVals == {Num(v) : v \in (0 - 1)..MaxCastVal}

\* the Series of n rows: float columns that may hold NaN, whole-number columns
CastSeries(n) ==
    {Float(v) : v \in [1..n -> CastVals \cup {NA}]}
    \cup {Series("int64", v) : v \in [1..n -> CastVals]}

\* the two-column table of the float columns v and w
CastFrames(v, w) == ("a" :> Float(v) @@ "b" :> Float(w))

InitCast ==
    /\ pc = "try_cast"
    /\ \E d \in {"int", "uint8"} :
         \/ \E n \in 1..MaxLen : \E v \in CastSeries(n) :
              arg = [values |-> v, dtype |-> d]
         \/ \E n \in 1..MaxFrameRows :
              \E v \in [1..n -> CastVals \cup {NA}], w \in [1..n -> CastVals \cup {NA}] :
                arg = [values |-> CastFrames(v, w), dtype |-> d]
    /\ ids = Empty
    /\ df = NoTable
    /\ df_full = NoTable
    /\ df_extract = NoTable
    /\ log = Empty
    /\ res = Empty
    /\ written = {}

TryCast ==
    /\ pc = "try_cast"
    /\ LET r == try_cast(arg.values, arg.dtype)
       IN  /\ pc' = IF r.exc = "none" THEN "cast" ELSE r.exc
           /\ res' = r.values
           /\ log' = log \o r.log
    /\ UNCHANGED <<ids, df, df_full, df_extract, arg, written>>

NextCast == TryCast

SpecCast == InitCast /\ [][NextCast]_vars

\* a column the target type can hold: an integer column always, a float
\* column when it has no NaN and, for an unsigned target, no negative number
Castable(s, dtype) ==
    s.dtype = "float64" =>
        /\ \A i \in Rows(s) : notna(s.vals[i])
        /\ dtype = "uint8" => \A i \in Rows(s) : s.vals[i][1] >= 0

\* what try_cast owes for one column: the cast values, or the column as it
\* was together with a warning that names it and counts its NaN
CastOutcome(before, after, dtype, name) ==
    IF Castable(before, dtype)
    THEN /\ after.dtype = (IF dtype = "int" THEN "int64" ELSE "uint8")
         /\ Len(after.vals) = Len(before.vals)
         /\ \A i \in Rows(before) :
              /\ notna(after.vals[i])
              /\ after.vals[i][1] = (IF dtype = "uint8" /\ before.vals[i][1] < 0
                                     THEN before.vals[i][1] + 256
                                     ELSE before.vals[i][1])
         /\ \A k \in 1..Len(log) : log[k][3] # name
    ELSE /\ after = before
         /\ \E k \in 1..Len(log) :
              /\ log[k][1] = "warning"
              /\ log[k][3] = name
              /\ log[k][5] = CountNA(before)

\* C8: try_cast never raises; a column that cannot be cast is returned as it
\* was and a warning is logged, a column that can be cast is returned cast
\* (for a table, column by column).
C8_TryCastNeverRaises ==
    /\ pc \in {"try_cast", "cast"}
    /\ pc = "cast" =>
         IF IsDataFrame(arg.values)
         THEN /\ DOMAIN res = DOMAIN arg.values
              /\ \A c \in DOMAIN arg.values :
                   CastOutcome(arg.values[c], res[c], arg.dtype, c)
         ELSE CastOutcome(arg.values, res, arg.dtype, "")

\* in one table a column with a missing value was kept as float64 with a
\* warning while the other column was cast
C8_Witness ==
    /\ pc = "cast"
    /\ IsDataFrame(arg.values)
    /\ \E c, d \in DOMAIN arg.values :
         /\ ~Castable(arg.values[c], arg.dtype) /\ res[c] = arg.values[c]
         /\ Castable(arg.values[d], arg.dtype) /\ res[d].dtype # "float64"
    /\ Len(log) > 0

-----------------------------------------------------------------------------
(* merge_if_na on its own: an ordered list of candidate columns *)

MergeVals == {NA, Num(1), Num(2)}

InitMerge ==
    /\ pc = "merge_if_na"
    /\ \E n \in 1..MaxMergeRows, k \in 1..MaxCols :
         \E d \in [1..k -> [1..n -> MergeVals]] :
             arg = [data |-> [c \in 1..k |-> Float(d[c])]]
    /\ ids = Empty
    /\ df = NoTable
    /\ df_full = NoTable
    /\ df_extract = NoTable
    /\ log = Empty
    /\ res = Empty
    /\ written = {}

Merge ==
    /\ pc = "merge_if_na"
    /\ res' = merge_if_na(arg.data)
    /\ pc' = "merged"
    /\ UNCHANGED <<ids, df, df_full, df_extract, log, arg, written>>

NextMerge == Merge

SpecMerge == InitMerge /\ [][NextMerge]_vars

\* the candidate columns that hold a value in row i
Present(i) == {c \in 1..Len(arg.data) : notna(arg.data[c].vals[i])}

\* C9: each row of the result of merge_if_na is the value, in that row, of
\* the first candidate column that is non-missing there, and is missing
\* exactly when every candidate is missing there; nothing else of the table
\* enters.
C9_FirstNonMissing ==
    pc = "merged" =>
        /\ Len(res.vals) = Len(arg.data[1].vals)
        /\ \A i \in Rows(res) :
             /\ isna(res.vals[i]) <=> Present(i) = {}
             /\ \A c \in Present(i) :
                  (\A b \in Present(i) : c <= b) => res.vals[i] = arg.data[c].vals[i]
             /\ notna(arg.data[1].vals[i]) => res.vals[i] = arg.data[1].vals[i]

\* one row took its value from the second candidate although the third held
\* another value, while another row kept the first candidate's value
C9_Witness ==
    /\ pc = "merged"
    /\ Len(arg.data) >= 3
    /\ \E i, j \in Rows(res) :
         /\ isna(arg.data[1].vals[i]) /\ notna(arg.data[2].vals[i])
         /\ notna(arg.data[3].vals[i]) /\ arg.data[3].vals[i] # arg.data[2].vals[i]
         /\ res.vals[i] = arg.data[2].vals[i]
         /\ notna(arg.data[1].vals[j]) /\ res.vals[j] = arg.data[1].vals[j]
         /\ notna(arg.data[2].vals[j]) /\ arg.data[2].vals[j] # arg.data[1].vals[j]

-----------------------------------------------------------------------------
(* merge_inc_rank on its own: a panel with interview dates <<year, month,    *)
(* day>> and income brackets, and a table of income ranks by year and        *)
(* bracket.  Ranks are counted in hundredths: 1.0 is 100.                    *)

MaxRankedRows == 2
MaxRanks == 2

\* date - pd.offsets.MonthBegin(): the last first-of-month before the date,
\* which for a date that is itself the first of a month is the month before
MonthBegin(date) ==
    IF date[3] > 1 THEN <<date[1], date[2], 1>>
    ELSE IF date[2] > 1 THEN <<date[1], date[2] - 1, 1>>
    ELSE <<date[1] - 1, 12, 1>>

\* lines 547-551: frac = (beg_month.month - 1) / 11, and the year of the date
\* itself less one where frac < 0.5
FiscalYear(date) ==
    LET beg_month == MonthBegin(date)
    IN  IF 2 * (beg_month[2] - 1) < 11 THEN date[1] - 1 ELSE date[1]

\* Series.max(), NaN skipped; NaN (here NA) for a column without a value
max(s) ==
    LET present == {s.vals[k][1] : k \in {j \in Rows(s) : notna(s.vals[j])}}
    IN  IF present = {} THEN NA
        ELSE Num(CHOOSE x \in present : \A y \in present : y <= x)

\* lines 557-558: ranks on [0, 1] become percentiles
Rescale(df_ranks) ==
    IF notna(max(df_ranks["rank"])) /\ max(df_ranks["rank"])[1] <= 100
    THEN [df_ranks EXCEPT !["rank"].vals =
             [k \in DOMAIN @ |-> IF notna(@[k]) THEN Num(@[k][1] * 100) ELSE NA]]
    ELSE df_ranks

\* the variant that joins without validating the cardinality: of several rank
\* records of a key the first one is taken
merge_inc_rank_FirstOfDuplicates(df_, varname_inc_bin, df_ranks) ==
    LET year == [i \in Rows(df_["date"]) |-> Num(FiscalYear(df_["date"].vals[i][1]))]
        ranks == Rescale(df_ranks)
        records == Rows(ranks["year"])
        key(k) == <<ranks["year"].vals[k], ranks["ibin"].vals[k]>>
        matches(i) == {k \in records : key(k) = <<year[i], df_[varname_inc_bin].vals[i]>>}
    IN  [exc |-> "none",
         year |-> Series("int64", year),
         values |-> Float([i \in Rows(df_["date"]) |->
                        IF matches(i) = {} THEN NA
                        ELSE ranks["rank"].vals[
                                 CHOOSE k \in matches(i) : \A l \in matches(i) : k <= l]])]

\* lines 524-579.  The left join keeps the rows of the panel in their order,
\* which the sorted index of the panel makes the order of the result;
\* validate="m:1" raises MergeError when two rank records share a key.
merge_inc_rank(df_, varname_inc_bin, df_ranks) ==
    LET year == [i \in Rows(df_["date"]) |-> Num(FiscalYear(df_["date"].vals[i][1]))]
        ranks == Rescale(df_ranks)
        records == Rows(ranks["year"])
        key(k) == <<ranks["year"].vals[k], ranks["ibin"].vals[k]>>
        matches(i) == {k \in records : key(k) = <<year[i], df_[varname_inc_bin].vals[i]>>}
    IN  IF \E k, l \in records : k # l /\ key(k) = key(l)
        THEN [exc |-> "MergeError", year |-> Series("int64", year), values |-> Empty]
        ELSE [exc |-> "none",
              year |-> Series("int64", year),
              values |-> Float([i \in Rows(df_["date"]) |->
                             IF matches(i) = {} THEN NA
                             ELSE ranks["rank"].vals[CHOOSE k \in matches(i) : TRUE]])]

\* rank records <<year, bracket, rank>>: 0.5 and 40.0
RankRecords == {<<y, 1, r>> : y \in {2014, 2015}, r \in {50, 4000}}

\* the rank table of a sequence of records
RankTable(q) ==
    [c \in {"year", "ibin", "rank"} |->
        CASE c = "year" -> Series("int64", [k \in 1..Len(q) |-> Num(q[k][1])])
          [] c = "ibin" -> Series("int64", [k \in 1..Len(q) |-> Num(q[k][2])])
          [] c = "rank" -> Float([k \in 1..Len(q) |-> Num(q[k][3])])]

RankTables == {RankTable(q) : q \in UNION {[1..k -> RankRecords] : k \in 0..MaxRanks}}

Dates == {<<y, m, d>> : y \in {2015, 2016}, m \in 1..12, d \in {1, 15, 28}}

\* a panel of n rows with the columns merge_inc_rank reads
RankedPanel(date, inc) ==
    [c \in {"date", "Q47"} |->
        IF c = "date" THEN Series("datetime64", date) ELSE Float(inc)]

InitRank ==
    /\ pc = "merge_inc_rank"
    /\ \/ /\ ids = <<1>>
          /\ \E date \in Dates : df = RankedPanel(<<Num(date)>>, <<Num(1)>>)
       \/ \E n \in 1..MaxRankedRows :
            /\ ids \in PanelIds(n)
            /\ \E date \in [1..n -> {Num(<<2015, 6, 15>>), Num(<<2015, 7, 15>>)}],
                  inc \in [1..n -> {NA, Num(1), Num(2)}] :
                 df = RankedPanel(date, inc)
    /\ \E r \in RankTables : arg = [varname_inc_bin |-> "Q47", df_ranks |-> r]
    /\ df_full = NoTable
    /\ df_extract = NoTable
    /\ log = Empty
    /\ res = Empty
    /\ written = {}

MergeIncRank ==
    /\ pc = "merge_inc_rank"
    /\ \E r \in {merge_inc_rank(df, arg.varname_inc_bin, arg.df_ranks)} :
         /\ pc' = IF r.exc = "none" THEN "ranked" ELSE r.exc
         /\ res' = r
    /\ UNCHANGED <<ids, df, df_full, df_extract, log, arg, written>>

NextRank == MergeIncRank

SpecRank == InitRank /\ [][NextRank]_vars

\* C16: the fiscal year merge_inc_rank assigns to a row is the year before the
\* interview's for an interview date in January to June, whatever the day, and
\* the interview's year for a date in July to December.
C16_FiscalYearByMonth ==
    pc \in {"ranked", "MergeError"} =>
        \A i \in Rows(df["date"]) :
            LET date == df["date"].vals[i][1]
            IN  res.year.vals[i] = Num(IF date[2] <= 6 THEN date[1] - 1 ELSE date[1])

\* the rank records of the key <<year, bracket>>
RecordsOf(year, bracket) ==
    {k \in Rows(arg.df_ranks["year"]) :
        /\ arg.df_ranks["year"].vals[k] = Num(year)
        /\ arg.df_ranks["ibin"].vals[k] = bracket}

\* the rank of record k as a percentile
Percentile(k) ==
    LET rank == arg.df_ranks["rank"]
    IN  IF \A l \in Rows(rank) : rank.vals[l][1] <= 100
        THEN Num(rank.vals[k][1] * 100) ELSE rank.vals[k]

DuplicateKeys ==
    \E k, l \in Rows(arg.df_ranks["year"]) :
        /\ k # l
        /\ arg.df_ranks["year"].vals[k] = arg.df_ranks["year"].vals[l]
        /\ arg.df_ranks["ibin"].vals[k] = arg.df_ranks["ibin"].vals[l]

\* C17: merge_inc_rank raises exactly when two rank records share a (year,
\* bracket) key and then returns no rank column; otherwise it returns one
\* rank per panel row: the percentile of the one record of the row's
\* assigned year and bracket, missing where there is none.
C17_ManyToOneOrRaise ==
    pc \in {"ranked", "MergeError"} =>
        /\ pc = "MergeError" <=> DuplicateKeys
        /\ pc = "MergeError" => res.values = Empty
        /\ pc = "ranked" =>
             /\ Len(res.values.vals) = Len(ids)
             /\ \A i \in 1..Len(ids) :
                  LET found == RecordsOf(res.year.vals[i][1], df["Q47"].vals[i])
                  IN  IF found = {} THEN isna(res.values.vals[i])
                      ELSE \A k \in found : res.values.vals[i] = Percentile(k)

\* the merge raised although only one of the two records of the duplicated
\* key carries the rank a silent join would have attached to the panel's row
C17_Witness ==
    /\ pc = "MergeError"
    /\ res.values = Empty
    /\ \E i \in 1..Len(ids) :
         \E k, l \in RecordsOf(res.year.vals[i][1], df["Q47"].vals[i]) :
            arg.df_ranks["rank"].vals[k] # arg.df_ranks["rank"].vals[l]

\* merge_inc_rank on the rows of two respondents interviewed at any two dates
InitYear ==
    /\ pc = "merge_inc_rank"
    /\ ids = <<1, 2>>
    /\ \E d1 \in Dates, d2 \in Dates, inc \in {NA, Num(1)} :
         df = RankedPanel(<<Num(d1), Num(d2)>>, <<inc, Num(1)>>)
    /\ arg = [varname_inc_bin |-> "Q47",
              df_ranks |-> RankTable(<<<<2014, 1, 50>>, <<2015, 1, 50>>>>)]
    /\ df_full = NoTable
    /\ df_extract = NoTable
    /\ log = Empty
    /\ res = Empty
    /\ written = {}

SpecYear == InitYear /\ [][NextRank]_vars

\* the calendar order of two dates
NotAfter(d1, d2) ==
    \/ d1[1] < d2[1]
    \/ d1[1] = d2[1] /\ d1[2] < d2[2]
    \/ d1[1] = d2[1] /\ d1[2] = d2[2] /\ d1[3] <= d2[3]

\* C22: of two rows of the panel, the one with the earlier interview date is
\* not assigned a later fiscal year than the other, and the fiscal year of a
\* row is the calendar year of its interview date or the year before.
C22_FiscalYearMonotone ==
    pc \in {"ranked", "MergeError"} =>
        \A i, j \in Rows(df["date"]) :
            /\ NotAfter(df["date"].vals[i][1], df["date"].vals[j][1]) =>
                 res.year.vals[i][1] <= res.year.vals[j][1]
            /\ res.year.vals[i][1] \in
                 {df["date"].vals[i][1][1] - 1, df["date"].vals[i][1][1]}

-----------------------------------------------------------------------------
(* main from the call of process_sce on: the two rank merges and the four    *)
(* output files.  The rank table read at line 69 is an input.                *)

\* an exception of a step ends the run; otherwise the run goes on
Propagate_Swallowed(r, next) == next
Propagate(r, next) == IF r.exc = "none" THEN next ELSE r.exc

\* line 71-72
RankFull ==
    /\ pc = "return"
    /\ \E r \in {merge_inc_rank(df_full, "Q47", arg.df_ranks)} :
         /\ pc' = Propagate(r, "RankExtract")
         /\ df_full' = IF r.exc = "none" THEN SetCol(df_full, "Q47_rank", r.values)
                       ELSE df_full
    /\ UNCHANGED <<ids, df, df_extract, log, arg, res, written>>

\* line 74-75
RankExtract ==
    /\ pc = "RankExtract"
    /\ \E r \in {merge_inc_rank(df_extract, "hh_inc", arg.df_ranks)} :
         /\ pc' = Propagate(r, "PickleExtract")
         /\ df_extract' = IF r.exc = "none" THEN SetCol(df_extract, "hh_inc_rank", r.values)
                          ELSE df_extract
    /\ UNCHANGED <<ids, df, df_full, log, arg, res, written>>

\* a table is written under a file name
Write(fn, next) ==
    /\ written' = written \cup {fn}
    /\ pc' = next
    /\ UNCHANGED <<ids, df, df_full, df_extract, log, arg, res>>

\* lines 79-81
PickleExtract == pc = "PickleExtract" /\ Write("sce_extract.pkl.xz", "PickleFull")

\* lines 83-85
PickleFull == pc = "PickleFull" /\ Write("sce_full.pkl.xz", "StataExtract")

\* lines 89-91
StataExtract == pc = "StataExtract" /\ Write("sce_extract.dta", "StataFull")

\* lines 93-95
StataFull == pc = "StataFull" /\ Write("sce_full.dta", "done")

\* rank tables: one record for each of two years, and the same with a second
\* record for one of the keys
MainRanks ==
    {RankTable(<<<<2014, 1, 50>>, <<2015, 1, 50>>>>),
     RankTable(<<<<2014, 1, 50>>, <<2015, 1, 50>>, <<2014, 1, 4000>>>>)}

\* a raw table with months of job search, a gender and an income bracket
MainTable(n) ==
    /\ ids \in PanelIds(n)
    /\ \E b \in [1..n -> Months], g \in [1..n -> {NA, Num(1)}],
          inc \in [1..n -> {NA, Num(1)}] :
         df = [Blank(n) EXCEPT !["Q16"] = Float(b), !["Q33"] = Float(g),
                               !["Q47"] = Float(inc)]

InitMain ==
    /\ pc = "Inflation"
    /\ \E n \in 1..MaxRows : MainTable(n)
    /\ \E r \in MainRanks : arg = [df_ranks |-> r]
    /\ df_full = NoTable
    /\ df_extract = NoTable
    /\ log = Empty
    /\ res = Empty
    /\ written = {}

NextMain ==
    \/ Next
    \/ RankFull
    \/ RankExtract
    \/ PickleExtract
    \/ PickleFull
    \/ StataExtract
    \/ StataFull

SpecMain == InitMain /\ [][NextMain]_vars

OutputFiles == {"sce_extract.pkl.xz", "sce_full.pkl.xz", "sce_extract.dta", "sce_full.dta"}

\* the run ended in an exception
Fatal == pc \in {"AssertionError", "ValueError", "MergeError", "KeyError", "TypeError"}

\* process_sce has returned its tables and both rank columns are merged
CoreCompleted ==
    /\ pc \in {"PickleExtract", "PickleFull", "StataExtract", "StataFull", "done"}
    /\ "hh_inc" \in DOMAIN df_extract
    /\ "Q47_rank" \in DOMAIN df_full
    /\ "hh_inc_rank" \in DOMAIN df_extract

\* C18: in main a file is written only once process_sce and both rank merges
\* have completed, and a run that ended in an exception of the core has
\* written no file.
C18_WritesOnlyAfterCore ==
    /\ written \subseteq OutputFiles
    /\ written # {} => CoreCompleted
    /\ Fatal => written = {}
    /\ pc = "done" => written = OutputFiles

\* process_sce had returned both tables when the rank merge raised on the
\* duplicated key, and nothing was written
C18_Witness ==
    /\ pc = "MergeError"
    /\ "hh_inc" \in DOMAIN df_extract
    /\ written = {}

-----------------------------------------------------------------------------
(* main from its first line to the return of process_sce: the vendor files   *)
(* are read, stacked and sorted, and process_sce sets the index.  A file is  *)
(* a record of its respondent id column and its other columns; its column    *)
(* "date" is the wave and "survey_date" the interview date.                  *)

\* the values of column c of a file, NaN where the file lacks the column
Pad(file, c) ==
    IF c \in DOMAIN file.table THEN file.table[c].vals
    ELSE [k \in 1..Len(file.ids) |-> NA]

\* pd.concat((a, b), axis=0): the rows of a, then those of b, over the union
\* of the columns
Stack(a, b) ==
    [ids |-> a.ids \o b.ids,
     table |-> [c \in DOMAIN a.table \cup DOMAIN b.table |->
                  Series(IF c \in DOMAIN a.table THEN a.table[c].dtype
                         ELSE b.table[c].dtype,
                         Pad(a, c) \o Pad(b, c))]]

RECURSIVE concat(_)

\* the variant that keeps the file read last only
concat_LastFileOnly(df_all) == df_all[Len(df_all)]

\* line 55
concat(df_all) ==
    IF Len(df_all) = 1 THEN df_all[1]
    ELSE Stack(concat(SubSeq(df_all, 1, Len(df_all) - 1)), df_all[Len(df_all)])

\* row r comes before row s in the order of (respondent, wave); rows of the
\* same key keep their order
Precedes(t, r, s) ==
    LET key(i) == <<t.ids[i], t.table["date"].vals[i][1]>>
    IN  \/ key(r)[1] < key(s)[1]
        \/ key(r)[1] = key(s)[1] /\ key(r)[2] < key(s)[2]
        \/ key(r) = key(s) /\ r < s

\* line 56 of main, line 40 of process_sce: the rows in the order of
\* (respondent, wave)
sort_values(t) ==
    LET n == Len(t.ids)
        at(p) == CHOOSE r \in 1..n :
                    Cardinality({s \in 1..n : Precedes(t, s, r)}) = p - 1
    IN  [ids |-> [p \in 1..n |-> t.ids[at(p)]],
         table |-> [c \in DOMAIN t.table |->
                      Series(t.table[c].dtype, [p \in 1..n |-> t.table[c].vals[at(p)]])]]

\* lines 37-56: every file is read and appended, the files are stacked and
\* the rows sorted
Concat ==
    /\ pc = "Concat"
    /\ \E df_orig \in {sort_values(concat(arg.files))} :
         /\ ids' = df_orig.ids
         /\ df' = df_orig.table
    /\ pc' = "process_sce"
    /\ UNCHANGED <<df_full, df_extract, log, arg, res, written>>

\* line 64 and lines 39-40 of process_sce: the wave and the respondent become
\* the sorted index, survey_date becomes date
SetIndex ==
    /\ pc = "process_sce"
    /\ \E t \in {sort_values([ids |-> ids, table |-> df])} :
         /\ ids' = t.ids
         /\ df' = [c \in DOMAIN t.table \ {"survey_date"} |->
                      IF c = "date" THEN t.table["survey_date"] ELSE t.table[c]]
    /\ pc' = "Inflation"
    /\ UNCHANGED <<df_full, df_extract, log, arg, res, written>>

\* the vintage of a wave: each file covers two waves
Period(w) == (w + 1) \div 2
Vintages == {1, 2}
WaveIds == 1..4
\* columns the first vintage lacks
LaterCols == {"QRA1", "QRA2"}

\* what a row answers: nothing, the gender, or the household composition
RowKinds == {"nothing", "gender", "composition"}

\* the members of a set of numbers in ascending or descending order
InOrder(S, ascending) ==
    [p \in 1..Cardinality(S) |->
        CHOOSE r \in S :
            Cardinality({s \in S : IF ascending THEN s < r ELSE s > r}) = p - 1]

\* the file of vintage f of a panel with respondents id, waves wid and answers kind
VendorFile(f, id, wid, kind, ascending) ==
    LET rows == InOrder({i \in DOMAIN id : Period(wid[i]) = f}, ascending)
        n == Len(rows)
    IN  [ids |-> [k \in 1..n |-> id[rows[k]]],
         table |->
            [c \in ((RawCols \ {"date"}) \ (IF f = 1 THEN LaterCols ELSE {}))
                       \cup {"date", "survey_date"} |->
                CASE c = "date" -> Series("int64", [k \in 1..n |-> Num(wid[rows[k]])])
                  [] c = "survey_date" ->
                        Series("datetime64", [k \in 1..n |-> Num(SomeDate)])
                  [] c = "Q33" ->
                        Float([k \in 1..n |->
                            IF kind[rows[k]] = "gender" THEN Num(1) ELSE NA])
                  [] c \in Range(Q45new) ->
                        Float([k \in 1..n |->
                            IF kind[rows[k]] = "composition"
                            THEN CompA[Position(Q45new, c)] ELSE NA])
                  [] OTHER -> Float([k \in 1..n |-> NA])]]

InitIngest ==
    /\ pc = "Concat"
    /\ \E n \in 1..MaxRows :
         \E id \in PanelIds(n), wid \in [1..n -> WaveIds],
            kind \in [1..n -> RowKinds], ascending \in BOOLEAN :
            /\ \A i \in 1..(n - 1) : id[i] = id[i + 1] => wid[i] < wid[i + 1]
            /\ arg = [files |-> [f \in Vintages |->
                                    VendorFile(f, id, wid, kind, ascending)]]
    /\ ids = Empty
    /\ df = NoTable
    /\ df_full = NoTable
    /\ df_extract = NoTable
    /\ log = Empty
    /\ res = Empty
    /\ written = {}

NextIngest ==
    \/ Concat
    \/ SetIndex
    \/ Next

SpecIngest == InitIngest /\ [][NextIngest]_vars

\* the rows <<file, position>> of the vendor files
FileRows ==
    UNION {{<<f, k>> : k \in 1..Len(arg.files[f].ids)} : f \in DOMAIN arg.files}
RespondentOf(r) == arg.files[r[1]].ids[r[2]]
WaveOf(r) == arg.files[r[1]].table["date"].vals[r[2]][1]
Answer(r, c) == arg.files[r[1]].table[c].vals[r[2]]

\* the file row that is row i of the files' rows in order of (respondent, wave)
FileRowAt(i) ==
    CHOOSE r \in FileRows :
        Cardinality({q \in FileRows :
            \/ RespondentOf(q) < RespondentOf(r)
            \/ RespondentOf(q) = RespondentOf(r) /\ WaveOf(q) < WaveOf(r)}) = i - 1

\* the table process_sce is called with holds every row of every file, in
\* the order of (respondent, wave)
Combined ==
    /\ Len(ids) = Cardinality(FileRows)
    /\ \A i \in 1..Len(ids) :
         LET r == FileRowAt(i)
         IN  /\ ids[i] = RespondentOf(r)
             /\ df["date"].vals[i] = Num(WaveOf(r))
             /\ \A c \in DOMAIN arg.files[r[1]].table : df[c].vals[i] = Answer(r, c)

\* a gender reported in any file is in every row of its respondent
BroadcastAcrossFiles ==
    \A r \in FileRows :
        notna(Answer(r, "Q33")) =>
            \A i \in 1..Len(ids) :
                ids[i] = RespondentOf(r) => df_full["Q33"].vals[i] = Answer(r, "Q33")

\* a composition reported in any file is in the rows of its respondent of
\* that and every later wave, whatever file they come from
CarriedAcrossFiles ==
    \A r \in FileRows :
        notna(Answer(r, "Q45new_1")) =>
            \A i \in 1..Len(ids) :
                (/\ RespondentOf(FileRowAt(i)) = RespondentOf(r)
                 /\ WaveOf(FileRowAt(i)) >= WaveOf(r)) =>
                    FullComp(i) = [k \in 1..Len(Q45new) |-> Answer(r, Q45new[k])]

\* C21: process_sce is entered only once the files are stacked, from the
\* state main's concatenation leaves, and then with a table that holds every
\* row of every file sorted by respondent and wave; in the tables it returns
\* a respondent-constant value reported in one file is in the respondent's
\* rows of every file, and a carried-forward value reaches the later waves of
\* the other files.
C21_CombinedBeforeProcessing ==
    /\ [](/\ pc = "process_sce" => Combined
          /\ pc # "Concat" => Len(ids) = Cardinality(FileRows)
          /\ pc = "return" => BroadcastAcrossFiles /\ CarriedAcrossFiles)
    /\ [][/\ pc' = "Inflation" => pc = "process_sce"
          /\ pc' = "process_sce" => pc = "Concat"
          /\ pc' # "Concat"]_vars

\* process_sce returned with the gender a respondent reported in the second
\* file in the respondent's row of the first file
C21_Witness ==
    /\ pc = "return"
    /\ \E r, q \in FileRows :
         /\ r[1] = 2 /\ q[1] = 1
         /\ RespondentOf(r) = RespondentOf(q)
         /\ notna(Answer(r, "Q33")) /\ isna(Answer(q, "Q33"))
         /\ \E i \in 1..Len(ids) :
              /\ FileRowAt(i) = q
              /\ df_full["Q33"].vals[i] = Answer(r, "Q33")

====
